---- MODULE Spec2Model ----
(***************************************************************************)
(* Home security demo (ECE 425 final project).                             *)
(*                                                                         *)
(* main.c (listed in README.md) owns the main loop and Menu_Controller;    *)
(* Security.c owns System_Armed, Get_Distance, Intruder_Alert and the      *)
(* display helpers.  Both translation units declare their own              *)
(*     static uint8_t system_armed, alert_active;                          *)
(* so there are two armed flags: m_system_armed (main.c) and               *)
(* s_system_armed (Security.c).  main.c never touches its alert_active.    *)
(*                                                                         *)
(* The program is single threaded; pc is the position of the one thread of *)
(* control, and every action is one straight-line piece of a function.     *)
(***************************************************************************)
EXTENDS Integers, Sequences, FiniteSets, TLC

\* ------------------------------------------------------------------------
\* Program constants
\* ------------------------------------------------------------------------
ButtonBits == 4            \* SW2..SW5, a 4-bit mask
AlertCycles == 10          \* for (int i = 0; i < 10; i++)
Threshold == 50            \* distance <= 50
READ_DISTANCE == 85        \* 0x55

SW2 == 8                   \* case 0x08: arm
SW3 == 4                   \* case 0x04: disarm
SW5 == 1                   \* case 0x01: manual trigger
SW4 == 2                   \* case 0x02: redraw

RECURSIVE Pow2(_)
Pow2(n) == IF n = 0 THEN 1 ELSE 2 * Pow2(n - 1)

Masks == 0 .. (Pow2(ButtonBits) - 1)

\* Distances the US-100 may be measuring (16-bit): the threshold's
\* boundaries, the byte boundary and the extremes.
SensorVals == {0, 1, 30, 50, 51, 200, 255, 256, 65535}

\* Cap of the per-arm counter of Get_Distance calls.
MaxReads == 2

\* ------------------------------------------------------------------------
\* LCD contents: <<row 0, row 1>>
\* ------------------------------------------------------------------------
MainMenuScreen == <<"Arm System", "Disarm System">>
IntruderScreen == <<"Intruder", "Detected">>
StatusScreen(message) == <<message, "">>

VARIABLES
    pc,                  \* position of the single thread of control
    m_system_armed,      \* main.c:     static uint8_t system_armed
    s_system_armed,      \* Security.c: static uint8_t system_armed
    s_alert_active,      \* Security.c: static uint8_t alert_active
    last_button_status,  \* Menu_Controller: static uint8_t last_button_status
    button_status,       \* main: edubase_button_status / Menu_Controller arg
    lcd,                 \* text on the 16x2 LCD
    leds,                \* "on" / "off" (EDUBASE_LED_ALL_ON / ALL_OFF)
    buzzer,              \* "off", "A4", "G4": last thing sent to the buzzer
    i,                   \* Intruder_Alert: loop counter
    caller,              \* who called Intruder_Alert: "menu" / "monitor"
    tx,                  \* last byte written to UART1->DR
    rx,                  \* words the sensor has put into the UART1 receiver
    rx_head,             \* how many of them UART1_Input_Character has taken
    high_byte, low_byte, \* Get_Distance locals
    distance,            \* System_Armed local
    sensor,              \* environment: distance the US-100 measures
    reads,               \* history: Get_Distance calls since the last arm
    flashes,             \* history: LED-on steps of the current alert
    last_event           \* history: last of "arm", "disarm", "alert"

vars == <<pc, m_system_armed, s_system_armed, s_alert_active,
          last_button_status, button_status, lcd, leds, buzzer, i, caller,
          tx, rx, rx_head, high_byte, low_byte, distance, sensor, reads,
          flashes, last_event>>

\* groups used in UNCHANGED
flagVars == <<m_system_armed, s_system_armed, s_alert_active>>
outVars  == <<lcd, leds, buzzer>>
btnVars  == <<last_button_status, button_status>>
uartVars == <<tx, rx, rx_head, high_byte, low_byte, distance>>
histVars == <<reads, flashes, last_event>>

\* main(): state when the while(1) loop is first entered
Init ==
    /\ pc = "main_poll"
    /\ m_system_armed = 0
    /\ s_system_armed = 0
    /\ s_alert_active = 0
    /\ last_button_status = 0
    /\ button_status = 0
    /\ lcd = MainMenuScreen
    /\ leds = "off"
    /\ buzzer = "off"
    /\ i = 0
    /\ caller = "none"
    /\ tx = 0
    /\ rx = <<>>
    /\ rx_head = 0
    /\ high_byte = 0
    /\ low_byte = 0
    /\ distance = 0
    /\ sensor \in SensorVals
    /\ reads = 0
    /\ flashes = 0
    /\ last_event = "none"

\* ------------------------------------------------------------------------
\* main loop
\* ------------------------------------------------------------------------

\* edubase_button_status = Get_EduBase_Button_Status();
Main_Poll ==
    /\ pc = "main_poll"
    /\ \E b \in Masks : button_status' = b
    /\ pc' = "mc_entry"
    /\ UNCHANGED <<flagVars, outVars, last_button_status, i, caller,
                   uartVars, sensor, histVars>>

\* SysTick_Delay1ms(10); meanwhile whatever stands before the sensor may move
Main_Delay ==
    /\ pc = "main_delay"
    /\ \E d \in SensorVals : sensor' = d
    /\ pc' = "main_poll"
    /\ UNCHANGED <<flagVars, outVars, btnVars, i, caller, uartVars,
                   histVars>>

\* ------------------------------------------------------------------------
\* Menu_Controller(button_status)
\* ------------------------------------------------------------------------

\* the test  button_status != last_button_status
Changed == button_status # last_button_status

\* if (button_status != last_button_status) is false: nothing happens
MC_Unchanged ==
    /\ pc = "mc_entry"
    /\ ~Changed
    /\ pc' = "main_delay"
    /\ UNCHANGED <<flagVars, outVars, btnVars, i, caller, uartVars, sensor,
                   histVars>>

\* MC_Arm with Display_Status("System Armed") left out before the monitor
\* is started.
MC_ArmNoStatus ==
    /\ pc = "mc_entry"
    /\ Changed
    /\ button_status = SW2
    /\ last_button_status' = button_status
    /\ IF m_system_armed = 0
          THEN /\ m_system_armed' = 1
               /\ pc' = "sa_entry"
               /\ reads' = 0
               /\ last_event' = "arm"
               /\ UNCHANGED lcd
          ELSE /\ lcd' = StatusScreen("Already Armed")
               /\ pc' = "mc_menu"
               /\ UNCHANGED <<m_system_armed, reads, last_event>>
    /\ UNCHANGED <<s_system_armed, s_alert_active, button_status, leds,
                   buzzer, i, caller, uartVars, sensor, flashes>>

\* MC_Arm without the test of the armed flag: every arm command arms again
\* and starts the monitor.
MC_ArmAlways ==
    /\ pc = "mc_entry"
    /\ Changed
    /\ button_status = SW2
    /\ last_button_status' = button_status
    /\ m_system_armed' = 1
    /\ lcd' = StatusScreen("System Armed")
    /\ pc' = "sa_entry"
    /\ reads' = 0
    /\ last_event' = "arm"
    /\ UNCHANGED <<s_system_armed, s_alert_active, button_status, leds,
                   buzzer, i, caller, uartVars, sensor, flashes>>

\* case 0x08 (SW2): arm, up to the call of System_Armed / the else branch
MC_Arm ==
    /\ pc = "mc_entry"
    /\ Changed
    /\ button_status = SW2
    /\ last_button_status' = button_status
    /\ IF m_system_armed = 0
          THEN /\ m_system_armed' = 1
               /\ lcd' = StatusScreen("System Armed")
               /\ pc' = "sa_entry"
               /\ reads' = 0
               /\ last_event' = "arm"
          ELSE /\ lcd' = StatusScreen("Already Armed")
               /\ pc' = "mc_menu"
               /\ UNCHANGED <<m_system_armed, reads, last_event>>
    /\ UNCHANGED <<s_system_armed, s_alert_active, button_status, leds,
                   buzzer, i, caller, uartVars, sensor, flashes>>

\* MC_Disarm with the assignment system_armed = 0 left out.
MC_DisarmKeepsArmed ==
    /\ pc = "mc_entry"
    /\ Changed
    /\ button_status = SW3
    /\ last_button_status' = button_status
    /\ IF m_system_armed # 0
          THEN /\ lcd' = StatusScreen("System Disarmed")
               /\ last_event' = "disarm"
          ELSE /\ lcd' = StatusScreen("Already Disarmed")
               /\ UNCHANGED last_event
    /\ pc' = "mc_menu"
    /\ UNCHANGED <<flagVars, button_status, leds, buzzer, i, caller,
                   uartVars, sensor, reads, flashes>>

\* case 0x04 (SW3): disarm, up to the trailing Display_Main_Menu
MC_Disarm ==
    /\ pc = "mc_entry"
    /\ Changed
    /\ button_status = SW3
    /\ last_button_status' = button_status
    /\ IF m_system_armed # 0
          THEN /\ m_system_armed' = 0
               /\ lcd' = StatusScreen("System Disarmed")
               /\ last_event' = "disarm"
          ELSE /\ lcd' = StatusScreen("Already Disarmed")
               /\ UNCHANGED <<m_system_armed, last_event>>
    /\ pc' = "mc_menu"
    /\ UNCHANGED <<s_system_armed, s_alert_active, button_status, leds,
                   buzzer, i, caller, uartVars, sensor, reads, flashes>>

\* Display_Main_Menu(); break;  closing the arm and the disarm case
MC_Menu ==
    /\ pc \in {"mc_menu", "sa_ret"}
    /\ lcd' = MainMenuScreen
    /\ pc' = "main_delay"
    /\ UNCHANGED <<flagVars, leds, buzzer, btnVars, i, caller, uartVars,
                   sensor, histVars>>

\* MC_Trigger gated by the armed flag: the alert runs only when Armed.
MC_TriggerGated ==
    /\ pc = "mc_entry"
    /\ Changed
    /\ button_status = SW5
    /\ last_button_status' = button_status
    /\ IF m_system_armed # 0
          THEN /\ caller' = "menu"
               /\ pc' = "ia_entry"
          ELSE /\ pc' = "main_delay"
               /\ UNCHANGED caller
    /\ UNCHANGED <<flagVars, outVars, button_status, i, uartVars, sensor,
                   histVars>>

\* case 0x01 (SW5): Intruder_Alert() is called whatever the armed flag is
MC_Trigger ==
    /\ pc = "mc_entry"
    /\ Changed
    /\ button_status = SW5
    /\ last_button_status' = button_status
    /\ caller' = "menu"
    /\ pc' = "ia_entry"
    /\ UNCHANGED <<flagVars, outVars, button_status, i, uartVars, sensor,
                   histVars>>

\* MC_Redraw that also resets the armed flag.
MC_RedrawDisarms ==
    /\ pc = "mc_entry"
    /\ Changed
    /\ button_status = SW4
    /\ last_button_status' = button_status
    /\ m_system_armed' = 0
    /\ lcd' = MainMenuScreen
    /\ pc' = "main_delay"
    /\ UNCHANGED <<s_system_armed, s_alert_active, leds, buzzer,
                   button_status, i, caller, uartVars, sensor, histVars>>

\* MC_Redraw that forgets to remember the mask: level-triggered redraw.
MC_RedrawLevel ==
    /\ pc = "mc_entry"
    /\ Changed
    /\ button_status = SW4
    /\ lcd' = MainMenuScreen
    /\ pc' = "main_delay"
    /\ UNCHANGED <<flagVars, leds, buzzer, btnVars, i, caller, uartVars,
                   sensor, histVars>>

\* case 0x02 (SW4): clear the LCD and redraw the menu
MC_Redraw ==
    /\ pc = "mc_entry"
    /\ Changed
    /\ button_status = SW4
    /\ last_button_status' = button_status
    /\ lcd' = MainMenuScreen
    /\ pc' = "main_delay"
    /\ UNCHANGED <<flagVars, leds, buzzer, button_status, i, caller,
                   uartVars, sensor, histVars>>

\* MC_Default that treats any mask with the disarm bit (0x04) as a disarm.
MC_DefaultBitTest ==
    /\ pc = "mc_entry"
    /\ Changed
    /\ button_status \notin {SW2, SW3, SW5, SW4}
    /\ last_button_status' = button_status
    /\ m_system_armed' = IF (button_status \div SW3) % 2 = 1
                            THEN 0 ELSE m_system_armed
    /\ pc' = "main_delay"
    /\ UNCHANGED <<s_system_armed, s_alert_active, outVars, button_status,
                   i, caller, uartVars, sensor, histVars>>

\* default: only last_button_status is updated
MC_Default ==
    /\ pc = "mc_entry"
    /\ Changed
    /\ button_status \notin {SW2, SW3, SW5, SW4}
    /\ last_button_status' = button_status
    /\ pc' = "main_delay"
    /\ UNCHANGED <<flagVars, outVars, button_status, i, caller, uartVars,
                   sensor, histVars>>

\* ------------------------------------------------------------------------
\* System_Armed()
\* ------------------------------------------------------------------------

\* SA_Entry setting the alert flag instead of clearing it.
SA_EntrySetsAlert ==
    /\ pc = "sa_entry"
    /\ s_alert_active' = 1
    /\ pc' = "sa_loop"
    /\ UNCHANGED <<m_system_armed, s_system_armed, outVars, btnVars, i,
                   caller, uartVars, sensor, histVars>>

\* alert_active = 0;
SA_Entry ==
    /\ pc = "sa_entry"
    /\ s_alert_active' = 0
    /\ pc' = "sa_loop"
    /\ UNCHANGED <<m_system_armed, s_system_armed, outVars, btnVars, i,
                   caller, uartVars, sensor, histVars>>

\* SA_Loop with the armed flag left out of the test: while (!alert_active).
SA_LoopWhileNoAlert ==
    /\ pc = "sa_loop"
    /\ pc' = IF s_alert_active = 0 THEN "gd_send" ELSE "sa_exit"
    /\ UNCHANGED <<flagVars, outVars, btnVars, i, caller, uartVars, sensor,
                   histVars>>

\* while (system_armed && !alert_active): the flags of Security.c
SA_Loop ==
    /\ pc = "sa_loop"
    /\ pc' = IF s_system_armed # 0 /\ s_alert_active = 0
                THEN "gd_send" ELSE "sa_exit"
    /\ UNCHANGED <<flagVars, outVars, btnVars, i, caller, uartVars, sensor,
                   histVars>>

\* the threshold test of the loop body
Breach(d) == d > 0 /\ d <= Threshold

\* if (distance > 0 && distance <= 50) { alert_active = 1; Intruder_Alert(); }
SA_Check ==
    /\ pc = "sa_check"
    /\ IF Breach(distance)
          THEN /\ s_alert_active' = 1
               /\ caller' = "monitor"
               /\ pc' = "ia_entry"
          ELSE /\ pc' = "sa_delay"
               /\ UNCHANGED <<s_alert_active, caller>>
    /\ UNCHANGED <<m_system_armed, s_system_armed, outVars, btnVars, i,
                   uartVars, sensor, histVars>>

\* SysTick_Delay1ms(100); and back to the loop test
SA_Delay ==
    /\ pc = "sa_delay"
    /\ pc' = "sa_loop"
    /\ UNCHANGED <<flagVars, outVars, btnVars, i, caller, uartVars, sensor,
                   histVars>>

\* if (!system_armed) Display_Main_Menu();  then return
SA_Exit ==
    /\ pc = "sa_exit"
    /\ lcd' = IF s_system_armed = 0 THEN MainMenuScreen ELSE lcd
    /\ pc' = "sa_ret"
    /\ UNCHANGED <<flagVars, leds, buzzer, btnVars, i, caller, uartVars,
                   sensor, histVars>>

\* ------------------------------------------------------------------------
\* Get_Distance(), called from System_Armed
\* ------------------------------------------------------------------------
Min(a, b) == IF a < b THEN a ELSE b

\* Combine with the two bytes in the wrong order (little-endian).
CombineSwapped(h, l) == (l * 256 + h) % 65536

\* (high_byte << 8) | low_byte, stored in a uint16_t
Combine(h, l) == (h * 256 + l) % 65536

\* Words that can stand in UART1->DR when a character has arrived: the data
\* byte in bits 7..0, and for some the framing / overrun error flags of bits
\* 11..8 on top.
DRWords == (0 .. 255) \cup {256 + 255, 2048 + 85}

\* UART1_Input_Character: return (char)(UART1->DR & 0xFF), stored in a
\* uint8_t
InputChar(w) == w % 256

\* the test of UART1_Input_Character's wait loop: receive FIFO empty
RxEmpty == rx_head = Len(rx)

\* UART1_Output_Character(READ_DISTANCE);
GD_Send ==
    /\ pc = "gd_send"
    /\ tx' = READ_DISTANCE
    /\ reads' = Min(reads + 1, MaxReads)
    /\ pc' = "gd_high"
    /\ UNCHANGED <<flagVars, outVars, btnVars, i, caller, rx, rx_head,
                   high_byte, low_byte, distance, sensor, flashes,
                   last_event>>

\* GD_High with a receive that gives up: on an empty FIFO it goes on with 0.
GD_HighTimesOut ==
    /\ pc = "gd_high"
    /\ IF RxEmpty
          THEN /\ high_byte' = 0
               /\ UNCHANGED rx_head
          ELSE /\ high_byte' = InputChar(rx[rx_head + 1])
               /\ rx_head' = rx_head + 1
    /\ pc' = "gd_low"
    /\ UNCHANGED <<flagVars, outVars, btnVars, i, caller, tx, rx, low_byte,
                   distance, sensor, histVars>>

\* uint8_t high_byte = UART1_Input_Character();  waits while the FIFO is
\* empty
GD_High ==
    /\ pc = "gd_high"
    /\ ~RxEmpty
    /\ high_byte' = InputChar(rx[rx_head + 1])
    /\ rx_head' = rx_head + 1
    /\ pc' = "gd_low"
    /\ UNCHANGED <<flagVars, outVars, btnVars, i, caller, tx, rx, low_byte,
                   distance, sensor, histVars>>

\* uint8_t low_byte = UART1_Input_Character(); combine; return
GD_Low ==
    /\ pc = "gd_low"
    /\ ~RxEmpty
    /\ low_byte' = InputChar(rx[rx_head + 1])
    /\ rx_head' = rx_head + 1
    /\ distance' = Combine(high_byte, low_byte')
    /\ pc' = "sa_check"
    /\ UNCHANGED <<flagVars, outVars, btnVars, i, caller, tx, rx, high_byte,
                   sensor, histVars>>

\* ------------------------------------------------------------------------
\* Intruder_Alert()
\* ------------------------------------------------------------------------

\* "Intruder" / "Detected", 3 s, then int i = 0
IA_Entry ==
    /\ pc = "ia_entry"
    /\ lcd' = IntruderScreen
    /\ i' = 0
    /\ flashes' = 0
    /\ pc' = "ia_loop"
    /\ UNCHANGED <<flagVars, leds, buzzer, btnVars, caller, uartVars,
                   sensor, reads, last_event>>

\* IA_Loop with the loop test off by one (i <= 10).
IA_LoopOffByOne ==
    /\ pc = "ia_loop"
    /\ pc' = IF i <= AlertCycles THEN "ia_on" ELSE "ia_reset"
    /\ UNCHANGED <<flagVars, outVars, btnVars, i, caller, uartVars, sensor,
                   histVars>>

\* the loop test  i < 10
IA_Loop ==
    /\ pc = "ia_loop"
    /\ pc' = IF i < AlertCycles THEN "ia_on" ELSE "ia_reset"
    /\ UNCHANGED <<flagVars, outVars, btnVars, i, caller, uartVars, sensor,
                   histVars>>

\* LEDs all on, Play_Note(A4_NOTE, 50), 250 ms
IA_On ==
    /\ pc = "ia_on"
    /\ leds' = "on"
    /\ buzzer' = "A4"
    /\ flashes' = flashes + 1
    /\ pc' = "ia_off"
    /\ UNCHANGED <<flagVars, lcd, btnVars, i, caller, uartVars, sensor,
                   reads, last_event>>

\* LEDs all off, Play_Note(G4_NOTE, 50), 250 ms, i++
IA_Off ==
    /\ pc = "ia_off"
    /\ leds' = "off"
    /\ buzzer' = "G4"
    /\ i' = i + 1
    /\ pc' = "ia_loop"
    /\ UNCHANGED <<flagVars, lcd, btnVars, caller, uartVars, sensor,
                   histVars>>

\* IA_Reset without Buzzer_Output(BUZZER_OFF).
IA_ResetBuzzerLeftOn ==
    /\ pc = "ia_reset"
    /\ s_alert_active' = 0
    /\ s_system_armed' = 0
    /\ leds' = "off"
    /\ lcd' = MainMenuScreen
    /\ last_event' = "alert"
    /\ pc' = "ia_ret"
    /\ UNCHANGED <<m_system_armed, buzzer, btnVars, i, caller, uartVars,
                   sensor, reads, flashes>>

\* IA_Reset leaving the system armed (system_armed = 1) at the end.
IA_ResetRearms ==
    /\ pc = "ia_reset"
    /\ s_alert_active' = 0
    /\ s_system_armed' = 1
    /\ leds' = "off"
    /\ buzzer' = "off"
    /\ lcd' = MainMenuScreen
    /\ last_event' = "alert"
    /\ pc' = "ia_ret"
    /\ UNCHANGED <<m_system_armed, btnVars, i, caller, uartVars, sensor,
                   reads, flashes>>

\* alert_active = 0; system_armed = 0; LEDs off; buzzer off; main menu
IA_Reset ==
    /\ pc = "ia_reset"
    /\ s_alert_active' = 0
    /\ s_system_armed' = 0
    /\ leds' = "off"
    /\ buzzer' = "off"
    /\ lcd' = MainMenuScreen
    /\ last_event' = "alert"
    /\ pc' = "ia_ret"
    /\ UNCHANGED <<m_system_armed, btnVars, i, caller, uartVars, sensor,
                   reads, flashes>>

\* return to the caller: the delay of System_Armed or the break of case 0x01
IA_Return ==
    /\ pc = "ia_ret"
    /\ pc' = IF caller = "monitor" THEN "sa_delay" ELSE "main_delay"
    /\ UNCHANGED <<flagVars, outVars, btnVars, i, caller, uartVars, sensor,
                   histVars>>

\* ------------------------------------------------------------------------
\* The program
\* ------------------------------------------------------------------------

\* The body of the while loop of System_Armed.  Security.c's system_armed is
\* static, initialised to 0 and only ever assigned 0 (Intruder_Alert), so the
\* loop test is false whenever it is evaluated and these steps never run in
\* the program (MonitorBodyUnreachable below); they are no part of Next.
MonitorBody ==
    \/ GD_Send
    \/ GD_High
    \/ GD_Low
    \/ SA_Check
    \/ SA_Delay

Next ==
    \/ Main_Poll
    \/ Main_Delay
    \/ MC_Unchanged
    \/ MC_Arm
    \/ MC_Disarm
    \/ MC_Menu
    \/ MC_Trigger
    \/ MC_Redraw
    \/ MC_Default
    \/ SA_Entry
    \/ SA_Loop
    \/ SA_Exit
    \/ IA_Entry
    \/ IA_Loop
    \/ IA_On
    \/ IA_Off
    \/ IA_Reset
    \/ IA_Return

Spec == Init /\ [][Next]_vars

\* The program with the scheduling of the one thread of control: as long
\* as some step of the program is possible, a step is taken.
FairSpec == Spec /\ WF_vars(Next)

\* ------------------------------------------------------------------------
\* Get_Distance() on its own: one call, with the US-100 on the other end of
\* UART1
\* ------------------------------------------------------------------------

\* the US-100 answers a query with two bytes
ResponseLen == 2

\* The sensor puts the next word of its answer into the receiver once the
\* query byte has been written.
Sensor_Byte ==
    /\ tx = READ_DISTANCE
    /\ Len(rx) < ResponseLen
    /\ \E w \in DRWords : rx' = Append(rx, w)
    /\ UNCHANGED <<pc, flagVars, outVars, btnVars, i, caller, tx, rx_head,
                   high_byte, low_byte, distance, sensor, histVars>>

\* Get_Distance is entered with nothing sent and nothing received yet
Init_GD ==
    /\ pc = "gd_send"
    /\ m_system_armed = 0
    /\ s_system_armed = 0
    /\ s_alert_active = 0
    /\ last_button_status = 0
    /\ button_status = 0
    /\ lcd = MainMenuScreen
    /\ leds = "off"
    /\ buzzer = "off"
    /\ i = 0
    /\ caller = "none"
    /\ tx = 0
    /\ rx = <<>>
    /\ rx_head = 0
    /\ high_byte = 0
    /\ low_byte = 0
    /\ distance = 0
    /\ sensor = 0
    /\ reads = 0
    /\ flashes = 0
    /\ last_event = "none"

Next_GD ==
    \/ GD_Send
    \/ Sensor_Byte
    \/ GD_High
    \/ GD_Low

SpecGD == Init_GD /\ [][Next_GD]_vars

\* the processor keeps executing Get_Distance, and the sensor delivers the
\* two bytes of its answer to every query
SpecGDFair ==
    /\ SpecGD
    /\ WF_vars(GD_Send)
    /\ WF_vars(GD_High)
    /\ WF_vars(GD_Low)
    /\ WF_vars(Sensor_Byte)

TypeOK ==
    /\ m_system_armed \in {0, 1}
    /\ s_system_armed \in {0, 1}
    /\ s_alert_active \in {0, 1}
    /\ last_button_status \in Masks
    /\ button_status \in Masks
    /\ i \in 0 .. AlertCycles
    /\ reads \in 0 .. MaxReads
    /\ sensor \in SensorVals
    /\ rx \in Seq(DRWords)
    /\ rx_head \in 0 .. Len(rx)
    /\ high_byte \in 0 .. 255
    /\ low_byte \in 0 .. 255
    /\ distance \in 0 .. 65535

\* positions inside Get_Distance and inside the loop body of System_Armed
GDPcs == {"gd_send", "gd_high", "gd_low"}
BodyPcs == GDPcs \cup {"sa_check", "sa_delay"}

\* positions inside Intruder_Alert, from its first statement to its last
AlertPcs == {"ia_entry", "ia_loop", "ia_on", "ia_off", "ia_reset"}

\* The loop body of System_Armed is dead code: no step of MonitorBody is
\* ever enabled.
MonitorBodyUnreachable == s_system_armed = 0 /\ pc \notin BodyPcs

\* the steps at which Menu_Controller dispatches a command
ArmCmd     == pc = "mc_entry" /\ Changed /\ button_status = SW2
DisarmCmd  == pc = "mc_entry" /\ Changed /\ button_status = SW3
TriggerCmd == pc = "mc_entry" /\ Changed /\ button_status = SW5

\* ------------------------------------------------------------------------
\* Claims
\* ------------------------------------------------------------------------

\* C1: whenever Intruder_Alert completes, the system is Disarmed as seen by
\* every component: both the armed flag of Security.c and the armed flag
\* Menu_Controller consults are 0.
C1_AlertEndsDisarmedEverywhere ==
    pc = "ia_ret" => (s_system_armed = 0 /\ m_system_armed = 0)

\* C2: there is one armed/disarmed state: the armed flag written by the arm
\* and disarm commands equals the armed flag read by System_Armed and
\* cleared by Intruder_Alert, in every reachable state.
C2_SingleArmedState == m_system_armed = s_system_armed

\* C3: when System_Armed returns after an accepted arm command, at least one
\* Get_Distance call has happened since that command.
C3_ReadAfterArm == pc = "sa_ret" => reads >= 1

\* C4: when the system has been armed while the sensor measures a distance d
\* with 0 < d <= 50, System_Armed does not return before an alert sequence
\* has run: at its return the last event is the completed alert.
C4_BreachRunsAlert ==
    (pc = "sa_ret" /\ Breach(sensor)) => last_event = "alert"

\* C5: while Armed with no alert active and the sensor measuring d = 0 or
\* d > 50, the system stays Armed and the next step of System_Armed at its
\* loop test is another sensor read (Get_Distance).
C5_NoBreachKeepsPolling ==
    [][(pc = "sa_loop" /\ m_system_armed = 1 /\ s_alert_active = 0
          /\ ~Breach(sensor))
       => (pc' = "gd_send" /\ m_system_armed' = 1)]_vars

\* C6: a disarm command dispatched while Armed sets the state to Disarmed
\* (both flags 0), and from then until a later accepted arm command no step
\* enters Get_Distance or writes the query byte.
C6_DisarmHaltsPolling ==
    [][/\ (DisarmCmd /\ m_system_armed = 1)
            => (m_system_armed' = 0 /\ s_system_armed' = 0
                  /\ last_event' = "disarm")
       /\ last_event = "disarm"
            => /\ pc' \notin BodyPcs
               /\ tx' = tx
               /\ last_event' = "disarm" => reads' = reads]_vars

\* C6 witness: a disarm command has just been accepted from Armed.
C6_Witness ==
    /\ pc = "mc_menu"
    /\ lcd = StatusScreen("System Disarmed")
    /\ m_system_armed = 0
    /\ last_event = "disarm"

\* C7: an arm command dispatched while Armed leaves both armed flags
\* unchanged, does not call System_Armed, shows "Already Armed", and the
\* next step shows the main menu.
C7_ArmWhenArmed ==
    [][/\ (ArmCmd /\ m_system_armed = 1)
            => /\ m_system_armed' = 1
               /\ s_system_armed' = s_system_armed
               /\ lcd' = StatusScreen("Already Armed")
               /\ pc' = "mc_menu"
       /\ (pc = "mc_menu" /\ lcd = StatusScreen("Already Armed"))
            => (lcd' = MainMenuScreen /\ pc' = "main_delay"
                  /\ m_system_armed' = 1)]_vars

\* C7 witness: an arm command was just refused because the system is Armed.
C7_Witness ==
    /\ pc = "mc_menu"
    /\ lcd = StatusScreen("Already Armed")
    /\ m_system_armed = 1

\* C8: a disarm command dispatched while the state is Disarmed (never armed,
\* disarmed, or an alert sequence has completed since the last arm) leaves
\* the armed flag unchanged and shows "Already Disarmed".
C8_DisarmWhenDisarmed ==
    [][(DisarmCmd /\ (m_system_armed = 0 \/ last_event = "alert"))
       => (lcd' = StatusScreen("Already Disarmed")
             /\ m_system_armed' = m_system_armed)]_vars

\* C9: every Intruder_Alert performs exactly AlertCycles (10) LED-on/LED-off
\* iterations before it returns, and between its first and its last
\* statement no button is read, no command is dispatched and no sensor read
\* starts: control stays in Intruder_Alert and the button variables, the
\* Menu_Controller armed flag and the UART are untouched.
C9_AlertAtomicTenCycles ==
    [][/\ pc' = "ia_ret" => (flashes' = AlertCycles /\ i' = AlertCycles)
       /\ pc \in AlertPcs
            => /\ pc' \in AlertPcs \cup {"ia_ret"}
               /\ UNCHANGED <<btnVars, uartVars, reads, m_system_armed>>
               /\ (pc' = "ia_ret" <=> pc = "ia_reset")
       /\ pc = "ia_reset" => flashes = AlertCycles]_vars

\* C9 witness: an alert sequence has just finished its ten iterations.
C9_Witness == pc = "ia_ret" /\ flashes = AlertCycles /\ leds = "off"

C14_DistanceBigEndian ==
    /\ rx_head > 0 => tx = READ_DISTANCE
    /\ rx_head <= 2
    /\ pc = "sa_check"
         => /\ rx_head = 2
            /\ reads = 1
            /\ distance = 256 * (rx[1] % 256) + (rx[2] % 256)
            /\ distance \in 0 .. 65535

\* C14 witness: a call has returned a distance whose high byte is not 0 and
\* differs from its low byte.
C14_Witness ==
    /\ pc = "sa_check"
    /\ rx_head = 2
    /\ distance = 256 * 1 + 44

\* C15: Get_Distance has no timeout: while the receiver is empty the call
\* makes no step (it does not return and nothing of the program changes),
\* and when the sensor delivers the two bytes of its answer, the call that
\* was started terminates.
C15_BlocksUntilAnswered ==
    /\ [][(pc \in {"gd_high", "gd_low"} /\ RxEmpty)
          => UNCHANGED <<pc, flagVars, outVars, btnVars, tx, rx_head,
                         high_byte, low_byte, distance, histVars>>]_vars
    /\ (pc = "gd_send") ~> (pc = "sa_check")

\* C15 witness: the query has been sent and the call waits on an empty
\* receiver.
C15_Witness ==
    /\ pc = "gd_high"
    /\ tx = READ_DISTANCE
    /\ RxEmpty
    /\ rx = <<>>

\* C11: the manual trigger command calls Intruder_Alert whatever the armed
\* flags are and without changing them; an alert started while Disarmed
\* stays Disarmed through all its steps and returns, after its ten
\* iterations, with the system Disarmed.
C11_TriggerUngated ==
    [][/\ TriggerCmd
            => (pc' = "ia_entry" /\ caller' = "menu" /\ UNCHANGED flagVars)
       /\ (pc \in AlertPcs /\ caller = "menu" /\ m_system_armed = 0)
            => /\ pc' \in AlertPcs \cup {"ia_ret"}
               /\ m_system_armed' = 0
               /\ s_system_armed' = 0
               /\ pc' = "ia_ret" => flashes' = AlertCycles]_vars

\* C11 witness: the trigger command has just started an alert while the
\* system is Disarmed.
C11_Witness ==
    /\ pc = "ia_entry"
    /\ caller = "menu"
    /\ button_status = SW5
    /\ m_system_armed = 0
    /\ s_system_armed = 0

\* C12: commands are edge-triggered.  Outside the dispatch point the
\* remembered mask is the mask of the latest Menu_Controller call; a call
\* with that same mask changes nothing and returns; a call with another
\* mask remembers it.  So of a run of equal masks only the first dispatches.
C12_EdgeTriggered ==
    [][/\ pc' # "mc_entry" => last_button_status' = button_status'
       /\ (pc = "mc_entry" /\ ~Changed)
            => /\ pc' = "main_delay"
               /\ UNCHANGED <<flagVars, outVars, btnVars, i, caller,
                              uartVars, histVars>>
       /\ (pc = "mc_entry" /\ Changed)
            => last_button_status' = button_status]_vars

\* C12 witness: the arm button is still held at the call after the one that
\* armed the system.
C12_Witness ==
    /\ pc = "mc_entry"
    /\ ~Changed
    /\ button_status = SW2
    /\ m_system_armed = 1

C16_AlertCleanup ==
    /\ pc = "ia_ret"
         => /\ s_alert_active = 0
            /\ leds = "off"
            /\ buzzer = "off"
            /\ lcd = MainMenuScreen
    /\ pc \in {"ia_loop", "ia_on", "ia_off", "ia_reset"}
         => lcd = IntruderScreen

\* C16 witness: the alert has returned after sounding the buzzer, everything
\* switched off and the main menu drawn.
C16_Witness ==
    /\ pc = "ia_ret"
    /\ i = AlertCycles
    /\ buzzer = "off"
    /\ lcd = MainMenuScreen

\* C17: a Menu_Controller call with a mask other than 0x01, 0x02, 0x04, 0x08
\* changes neither the armed flags nor the alert flag, writes nothing to the
\* LCD, the LEDs or the buzzer, starts nothing, and returns to the main loop
\* with that mask remembered.
C17_OtherMasksIgnored ==
    [][(pc = "mc_entry" /\ button_status \notin {SW5, SW4, SW3, SW2})
       => /\ UNCHANGED <<flagVars, outVars, i, caller, uartVars, histVars>>
          /\ last_button_status' = button_status
          /\ pc' = "main_delay"]_vars

\* C17 witness: arm and disarm pressed together (0x0C) while Armed have
\* been ignored.
C17_Witness ==
    /\ pc = "main_delay"
    /\ button_status = SW2 + SW3
    /\ last_button_status = SW2 + SW3
    /\ m_system_armed = 1

C19_AlertFlagScope ==
    /\ pc = "sa_ret" => (s_system_armed = 0 /\ s_alert_active = 0)
    /\ s_alert_active = 1 => (pc \in AlertPcs /\ caller = "monitor")
    /\ pc = "main_poll" => s_alert_active = 0

\* C19 witness: System_Armed has just returned.
C19_Witness ==
    /\ pc = "sa_ret"
    /\ s_system_armed = 0
    /\ s_alert_active = 0
    /\ last_event = "arm"

\* C20: the redraw command changes only the LCD (to the main menu): armed
\* flags, alert flag, LEDs and buzzer are unchanged and nothing is sent to
\* or taken from the sensor.
C20_RedrawOnlyLcd ==
    [][(pc = "mc_entry" /\ Changed /\ button_status = SW4)
       => /\ UNCHANGED <<flagVars, leds, buzzer, uartVars, reads, flashes,
                         last_event>>
          /\ lcd' = MainMenuScreen
          /\ pc' = "main_delay"]_vars

\* C20 witness: a redraw command has been processed while Armed.
C20_Witness ==
    /\ pc = "main_delay"
    /\ button_status = SW4
    /\ last_button_status = SW4
    /\ m_system_armed = 1
    /\ lcd = MainMenuScreen

====
